---- MODULE Spec2Model ----
(***************************************************************************)
(* Model of the CPU scheduling simulator in src/main.go.                   *)
(*                                                                         *)
(* main loads a list of processes and hands the same slice, in turn, to    *)
(* FCFSSchedule, SJFSchedule, SJFPrioritySchedule and RRSchedule.  Each    *)
(* scheduler builds a Gantt timeline and a schedule table and prints them  *)
(* with three averages.  Each scheduler is one action of the model; its    *)
(* loops are recursive operators that follow the code statement by         *)
(* statement.  Indices are 1-based here and 0-based in the source.         *)
(*                                                                         *)
(* Table cells are produced by fmt.Sprint of an int64; the model keeps the *)
(* integer that is printed.  The float64 totals only ever hold sums of     *)
(* small integers, so they are modelled as integers, and a float division  *)
(* is modelled by FDiv, which keeps IEEE-754's NaN and infinities.         *)
(***************************************************************************)
EXTENDS Integers, Sequences, FiniteSets, TLC

\* ---------------------------------------------------------------- bounds
MaxProcs == 3
MaxBurst == 3
MaxArrival == 2
MaxPriority == 2

VARIABLES processes, input, pc, out

vars == <<processes, input, pc, out>>

Schedulers == {"FCFS", "SJF", "Priority", "RR"}

\* ------------------------------------------------------------ data types
\* type Process: the exported fields come from the input file, the
\* unexported ones are the zero value after loadProcesses.
Process(id, burst, arrival, priority) ==
    [ProcessID |-> id, ArrivalTime |-> arrival, BurstDuration |-> burst,
     Priority |-> priority, startingTime |-> 0, isDone |-> FALSE,
     hasMultiple |-> FALSE, totalWait |-> 0, stoppingTime |-> 0]

\* type TimeSlice
TimeSlice(pid, start, stop) == [PID |-> pid, Start |-> start, Stop |-> stop]

\* One row of the schedule table, in the column order of outputSchedule's
\* header: ID, Priority, Burst, Arrival, Wait, Turnaround, Exit.
Row(id, priority, burst, arrival, wait, turnaround, exit) ==
    <<id, priority, burst, arrival, wait, turnaround, exit>>

\* A row that make([][]string, len(processes)) created and nobody filled in.
NilRow == <<>>

\* make([][]string, n)
MakeSchedule(n) == [i \in 1..n |-> NilRow]

\* float64 division a / b of two integer-valued floats.
FDiv(a, b) ==
    IF b # 0 THEN [kind |-> "num", num |-> a, den |-> b]
    ELSE IF a = 0 THEN [kind |-> "NaN", num |-> a, den |-> b]
    ELSE [kind |-> "Inf", num |-> a, den |-> b]

\* The tail shared by the four schedulers: count and the three averages,
\* then outputTitle, outputGantt, outputSchedule.
Output(n, gantt, schedule, totalWait, totalTurnaround, lastCompletion, quantum) ==
    [done |-> TRUE, gantt |-> gantt, schedule |-> schedule,
     totalWait |-> totalWait, totalTurnaround |-> totalTurnaround,
     lastCompletion |-> lastCompletion, count |-> n,
     aveWait |-> FDiv(totalWait, n),
     aveTurnaround |-> FDiv(totalTurnaround, n),
     aveThroughput |-> FDiv(n, lastCompletion),
     timeQuantum |-> quantum]

\* Nothing printed (yet) for a scheduler.
NoOutput ==
    [done |-> FALSE, gantt |-> <<>>, schedule |-> <<>>,
     totalWait |-> 0, totalTurnaround |-> 0, lastCompletion |-> 0, count |-> 0,
     aveWait |-> FDiv(0, 0), aveTurnaround |-> FDiv(0, 0),
     aveThroughput |-> FDiv(0, 0), timeQuantum |-> 0]

\* The three less functions handed to sort.SliceStable: by arrival time
\* (SJFPrioritySchedule), by priority (SJFPrioritySchedule), and by arrival
\* time then burst duration (SJFSchedule).
Less(by, a, b) ==
    CASE by = "ArrivalTime" -> a.ArrivalTime < b.ArrivalTime
      [] by = "Priority" -> a.Priority < b.Priority
      [] by = "ArrivalTimeBurst" ->
            IF a.ArrivalTime = b.ArrivalTime
            THEN a.BurstDuration < b.BurstDuration
            ELSE a.ArrivalTime < b.ArrivalTime

\* sort.SliceStable: a stable sort is determined by its less function, so
\* it is modelled by a stable insertion sort.
RECURSIVE InsertStable(_, _, _)
InsertStable(s, e, by) ==
    IF s = <<>> THEN <<e>>
    ELSE IF Less(by, e, s[Len(s)])
         THEN Append(InsertStable(SubSeq(s, 1, Len(s) - 1), e, by), s[Len(s)])
         ELSE Append(s, e)

RECURSIVE SliceStable(_, _)
SliceStable(s, by) ==
    IF s = <<>> THEN <<>>
    ELSE InsertStable(SliceStable(SubSeq(s, 1, Len(s) - 1), by), s[Len(s)], by)

\* s with e inserted so that it becomes element i (0-based index i-1):
\* append(s[:i], append([]Process{e}, s[i:]...)...)
InsertAt(s, i, e) == SubSeq(s, 1, i - 1) \o <<e>> \o SubSeq(s, i, Len(s))

\* ------------------------------------------------------------------ FCFS
\* One iteration of the loop of FCFSSchedule.
FCFSStep(ps, i, st) ==
    LET p == ps[i]
        waitingTime == IF p.ArrivalTime > 0 THEN st.serviceTime - p.ArrivalTime
                       ELSE st.waitingTime
        start == waitingTime + p.ArrivalTime
        turnaround == p.BurstDuration + waitingTime
        completion == p.BurstDuration + p.ArrivalTime + waitingTime
        serviceTime == st.serviceTime + p.BurstDuration
    IN [serviceTime |-> serviceTime,
        waitingTime |-> waitingTime,
        totalWait |-> st.totalWait + waitingTime,
        totalTurnaround |-> st.totalTurnaround + turnaround,
        lastCompletion |-> completion,
        schedule |-> [st.schedule EXCEPT ![i] =
                         Row(p.ProcessID, p.Priority, p.BurstDuration,
                             p.ArrivalTime, waitingTime, turnaround, completion)],
        gantt |-> Append(st.gantt, TimeSlice(p.ProcessID, start, serviceTime))]

RECURSIVE FCFSLoop(_, _, _)
FCFSLoop(ps, i, st) ==
    IF i > Len(ps) THEN st ELSE FCFSLoop(ps, i + 1, FCFSStep(ps, i, st))

FCFSRun(ps) ==
    LET st == FCFSLoop(ps, 1,
                  [serviceTime |-> 0, waitingTime |-> 0, totalWait |-> 0,
                   totalTurnaround |-> 0, lastCompletion |-> 0,
                   schedule |-> MakeSchedule(Len(ps)), gantt |-> <<>>])
    IN Output(Len(ps), st.gantt, st.schedule, st.totalWait,
              st.totalTurnaround, st.lastCompletion, 0)

\* ------------------------------------------------------------------- SJF
\* The inner loop of the third branch of SJFSchedule's first loop:
\* for j := range readyQueue, over the n0 elements readyQueue had when the
\* loop began; the body appends to readyQueue and updates copyProc[i].
RECURSIVE SJFRequeue(_, _, _, _)
SJFRequeue(st, i, j, n0) ==
    IF j > n0 THEN st
    ELSE IF /\ st.readyQueue[j].ProcessID = st.copyProc[i].ProcessID
            /\ st.readyQueue[j].isDone # TRUE
    THEN LET c == st.copyProc[i]
             stop == st.serviceTime + c.BurstDuration
             d == [c EXCEPT !.startingTime = st.serviceTime,
                            !.stoppingTime = stop,
                            !.totalWait = stop - st.serviceTime,
                            !.isDone = TRUE]
         IN SJFRequeue([st EXCEPT !.copyProc[i] = d,
                                  !.serviceTime = st.serviceTime + d.BurstDuration,
                                  !.readyQueue = Append(st.readyQueue, d)],
                       i, j + 1, n0)
    ELSE SJFRequeue(st, i, j + 1, n0)

\* One iteration of the first loop of SJFSchedule.
SJFStep(st, i) ==
    LET cp == st.copyProc
        n == Len(cp)
    IN IF cp[i].ArrivalTime = 0 /\ cp[i].isDone # TRUE
       THEN LET d == [cp[i] EXCEPT !.totalWait = 0,
                                   !.startingTime = cp[i].ArrivalTime,
                                   !.stoppingTime = cp[i].BurstDuration,
                                   !.isDone = TRUE]
            IN [st EXCEPT !.copyProc[i] = d,
                          !.serviceTime = st.serviceTime + d.BurstDuration,
                          !.readyQueue = Append(st.readyQueue, d)]
       ELSE IF i + 1 <= n /\ cp[i + 1].BurstDuration < cp[i].BurstDuration
       THEN IF cp[i].ArrivalTime < cp[i + 1].ArrivalTime
            THEN LET \* for j := serviceTime; j < next arrival; j++ { currBurst += 1 }
                     currBurst == IF cp[i + 1].ArrivalTime > st.serviceTime
                                  THEN st.currBurst + (cp[i + 1].ArrivalTime - st.serviceTime)
                                  ELSE st.currBurst
                     remBurst == cp[i].BurstDuration
                     wait1 == st.serviceTime - cp[i].ArrivalTime
                     first == [cp[i] EXCEPT !.BurstDuration = currBurst,
                                            !.totalWait = wait1,
                                            !.startingTime = st.serviceTime,
                                            !.stoppingTime = currBurst + cp[i].ArrivalTime + wait1,
                                            !.isDone = FALSE]
                     service1 == st.serviceTime + first.BurstDuration
                     rest == [first EXCEPT !.BurstDuration = remBurst - currBurst]
                     \* after the swap copyProc[i] is the old copyProc[i+1]
                     wait2 == service1 - cp[i + 1].ArrivalTime
                     second == [cp[i + 1] EXCEPT !.totalWait = wait2,
                                                 !.startingTime = service1,
                                                 !.stoppingTime = service1 + cp[i + 1].BurstDuration + wait2,
                                                 !.isDone = TRUE]
                 IN [st EXCEPT !.currBurst = currBurst,
                               !.remBurst = remBurst,
                               !.copyProc = [cp EXCEPT ![i] = second, ![i + 1] = rest],
                               !.serviceTime = service1 + second.BurstDuration,
                               !.readyQueue = st.readyQueue \o <<first, second>>]
            ELSE st
       ELSE IF cp[i].isDone # TRUE
       THEN SJFRequeue(st, i, 1, Len(st.readyQueue))
       ELSE st

RECURSIVE SJFLoop(_, _)
SJFLoop(st, i) ==
    IF i > Len(st.copyProc) THEN st ELSE SJFLoop(SJFStep(st, i), i + 1)

\* The inner loop of SJFSchedule's second loop, run for a readyQueue[i]
\* that is not done: every done entry of the same process takes
\* readyQueue[i].totalWait off the total.
RECURSIVE SJFUnwait(_, _, _, _)
SJFUnwait(rq, i, j, totalWait) ==
    IF j > Len(rq) THEN totalWait
    ELSE IF /\ rq[j].ProcessID = rq[i].ProcessID
            /\ rq[j].isDone = TRUE /\ rq[i].isDone = FALSE
    THEN SJFUnwait(rq, i, j + 1, totalWait - rq[i].totalWait)
    ELSE SJFUnwait(rq, i, j + 1, totalWait)

\* One iteration of the second loop of SJFSchedule.
SJFEmit(rq, i, o) ==
    LET r == rq[i]
        turnaround == r.BurstDuration + r.totalWait
        completion == r.stoppingTime
    IN [totalTurnaround |-> IF r.isDone = TRUE THEN o.totalTurnaround + turnaround
                            ELSE o.totalTurnaround,
        totalWait |-> IF r.isDone = TRUE THEN o.totalWait + r.totalWait
                      ELSE SJFUnwait(rq, i, 1, o.totalWait),
        schedule |-> Append(o.schedule,
                        Row(r.ProcessID, r.Priority, r.BurstDuration,
                            r.ArrivalTime, r.totalWait, turnaround, completion)),
        gantt |-> Append(o.gantt, TimeSlice(r.ProcessID, r.startingTime, r.stoppingTime)),
        lastCompletion |-> r.stoppingTime]

RECURSIVE SJFEmitLoop(_, _, _)
SJFEmitLoop(rq, i, o) ==
    IF i > Len(rq) THEN o ELSE SJFEmitLoop(rq, i + 1, SJFEmit(rq, i, o))

\* The caller's slice after SJFSchedule's in-place sort.
SJFSorted(ps) == SliceStable(ps, "ArrivalTimeBurst")

SJFRun(ps) ==
    LET sorted == SJFSorted(ps)
        st == SJFLoop([copyProc |-> sorted, readyQueue |-> <<>>,
                       serviceTime |-> 0, currBurst |-> 0, remBurst |-> 0], 1)
        o == SJFEmitLoop(st.readyQueue, 1,
                 [totalTurnaround |-> 0, totalWait |-> 0,
                  schedule |-> MakeSchedule(Len(ps)), gantt |-> <<>>,
                  lastCompletion |-> 0])
    IN Output(Len(ps), o.gantt, o.schedule, o.totalWait, o.totalTurnaround,
              o.lastCompletion, 0)

\* -------------------------------------------------------------- Priority
\* One iteration of the first loop of SJFPrioritySchedule,
\* for i, x := range copyProc.  The range clause fixes the slice it walks
\* when the loop starts, and copyProc is created with capacity equal to its
\* length, so the first insertion moves copyProc to a new array: x is always
\* sorted[i], the i-th process in arrival order as it was before the loop,
\* while copyProc[i] is read from the slice as modified so far.
PriorityStep(st, i, sorted, priorityQueue) ==
    LET cp0 == st.copyProc
        Temp == cp0[i]
        x0 == sorted[i]
        mismatch == i + 1 <= Len(cp0) /\ cp0[i].ProcessID # priorityQueue[i].ProcessID
        \* for int64(currBurst) < copyProc[i+1].ArrivalTime { stoppingTime++; currBurst++ }
        ticks == IF mismatch /\ st.currBurst < cp0[i + 1].ArrivalTime
                 THEN cp0[i + 1].ArrivalTime - st.currBurst ELSE 0
        currBurst == st.currBurst + ticks
        cp1 == [cp0 EXCEPT ![i].stoppingTime = @ + ticks]
        split == mismatch /\ currBurst < Temp.BurstDuration
        x1 == IF split THEN [x0 EXCEPT !.stoppingTime = currBurst,
                                       !.BurstDuration = currBurst]
              ELSE x0
        cp2 == IF split THEN [cp1 EXCEPT ![i].BurstDuration = @ - currBurst] ELSE cp1
        readyQueue == IF split THEN Append(st.readyQueue, cp2[i]) ELSE st.readyQueue
        cp3 == IF mismatch /\ cp2[i + 1].ProcessID = priorityQueue[i].ProcessID
               THEN LET ins == IF cp2[i].isDone = FALSE THEN InsertAt(cp2, i, x1) ELSE cp2
                    IN [ins EXCEPT ![i] = x1]
               ELSE cp2
        swap == i + 2 <= Len(cp3) /\ cp3[i + 1].Priority > cp3[i + 2].Priority
        waited == [cp3[i + 1] EXCEPT !.totalWait = cp3[i + 2].BurstDuration]
        x2 == IF waited.ProcessID = cp3[i].ProcessID
              THEN [waited EXCEPT !.isDone = TRUE] ELSE waited
        cp4 == IF swap THEN [cp3 EXCEPT ![i + 1] = cp3[i + 2], ![i + 2] = x2] ELSE cp3
    IN [copyProc |-> cp4, readyQueue |-> readyQueue, currBurst |-> currBurst,
        broke |-> swap]

\* The first loop of SJFPrioritySchedule; it stops at the break.
RECURSIVE PriorityLoop(_, _, _, _)
PriorityLoop(st, i, sorted, priorityQueue) ==
    IF i > Len(sorted) \/ st.broke THEN st
    ELSE PriorityLoop(PriorityStep(st, i, sorted, priorityQueue), i + 1,
                      sorted, priorityQueue)

\* burstCount: the bursts of the entries of copyProc that belong to pid.
RECURSIVE BurstCount(_, _, _)
BurstCount(cp, pid, j) ==
    IF j > Len(cp) THEN 0
    ELSE (IF cp[j].ProcessID = pid THEN cp[j].BurstDuration ELSE 0)
         + BurstCount(cp, pid, j + 1)

\* for k := len(copyProc) - 1; k > 0; k-- : the last entry of pid, the
\* first element of copyProc excluded, is marked done.
RECURSIVE MarkLastDone(_, _, _)
MarkLastDone(cp, pid, k) ==
    IF k <= 1 THEN cp
    ELSE IF cp[k].ProcessID = pid THEN [cp EXCEPT ![k].isDone = TRUE]
    ELSE MarkLastDone(cp, pid, k - 1)

\* The second loop of SJFPrioritySchedule, over the caller's slice ps.
RECURSIVE PriorityMarkLoop(_, _, _)
PriorityMarkLoop(cp, ps, i) ==
    IF i > Len(ps) THEN cp
    ELSE PriorityMarkLoop(
             IF BurstCount(cp, ps[i].ProcessID, 1) = ps[i].BurstDuration
             THEN MarkLastDone(cp, ps[i].ProcessID, Len(cp)) ELSE cp,
             ps, i + 1)

\* One iteration of the third loop of SJFPrioritySchedule.
PriorityEmit(o, i) ==
    LET cp0 == o.copyProc
        waitingTime == IF cp0[i].ArrivalTime > 0
                       THEN o.serviceTime - cp0[i].ArrivalTime ELSE o.waitingTime
        cp1 == IF cp0[i].ArrivalTime > 0
               THEN [cp0 EXCEPT ![i].totalWait = waitingTime] ELSE cp0
        cp2 == IF i + 2 <= Len(cp1) /\ cp1[i + 2].ProcessID = cp1[i].ProcessID
               THEN [cp1 EXCEPT ![i + 2].totalWait = cp1[i + 1].BurstDuration]
               ELSE cp1
        c == [cp2[i] EXCEPT !.startingTime = o.serviceTime,
                            !.stoppingTime = o.serviceTime + cp2[i].BurstDuration]
        turnaround == c.BurstDuration + c.totalWait
        completion == c.BurstDuration + c.ArrivalTime + waitingTime
    IN [copyProc |-> [cp2 EXCEPT ![i] = c],
        serviceTime |-> o.serviceTime + c.BurstDuration,
        waitingTime |-> waitingTime,
        totalWait |-> o.totalWait + c.totalWait,
        totalTurnaround |-> o.totalTurnaround + turnaround,
        lastCompletion |-> completion,
        schedule |-> Append(o.schedule,
                        Row(c.ProcessID, c.Priority, c.BurstDuration,
                            c.ArrivalTime, c.totalWait, turnaround, c.stoppingTime)),
        gantt |-> Append(o.gantt, TimeSlice(c.ProcessID, c.startingTime, c.stoppingTime))]

RECURSIVE PriorityEmitLoop(_, _)
PriorityEmitLoop(o, i) ==
    IF i > Len(o.copyProc) THEN o ELSE PriorityEmitLoop(PriorityEmit(o, i), i + 1)

\* copyProc as the first two loops of SJFPrioritySchedule leave it.
PriorityQueueOf(ps) ==
    LET sorted == SliceStable(ps, "ArrivalTime")
        priorityQueue == SliceStable(ps, "Priority")
        st == PriorityLoop([copyProc |-> sorted, readyQueue |-> <<>>,
                            currBurst |-> 0, broke |-> FALSE],
                           1, sorted, priorityQueue)
    IN PriorityMarkLoop(st.copyProc, ps, 1)

PriorityRun(ps) ==
    LET o == PriorityEmitLoop(
                 [copyProc |-> PriorityQueueOf(ps), serviceTime |-> 0,
                  waitingTime |-> 0, totalWait |-> 0, totalTurnaround |-> 0,
                  lastCompletion |-> 0, schedule |-> MakeSchedule(Len(ps)),
                  gantt |-> <<>>], 1)
    IN Output(Len(ps), o.gantt, o.schedule, o.totalWait, o.totalTurnaround,
              o.lastCompletion, 0)

\* -------------------------------------------------------------------- RR
\* timeQuantum: the burst of the first process, lowered to every smaller
\* burst met in the list.  ps is not empty.
RECURSIVE RRQuantumLoop(_, _, _)
RRQuantumLoop(ps, i, timeQuantum) ==
    IF i > Len(ps) THEN timeQuantum
    ELSE RRQuantumLoop(ps, i + 1,
                       IF timeQuantum > ps[i].BurstDuration
                       THEN ps[i].BurstDuration ELSE timeQuantum)

RRQuantum(ps) == RRQuantumLoop(ps, 1, ps[1].BurstDuration)

\* RRSplit with the two pieces of a split process exchanged: the piece put
\* in front gets what is left after one quantum, the piece put at the back
\* gets the quantum.
RRSplitRemainderFirst(readyQueue, i, copyQueue, timeQuantum) ==
    LET x == copyQueue[i]
        c0 == [copyQueue[i] EXCEPT !.startingTime = 0]
    IN IF c0.BurstDuration = timeQuantum
       THEN Append(readyQueue, [x EXCEPT !.isDone = TRUE, !.hasMultiple = FALSE])
       ELSE LET rest == [x EXCEPT !.hasMultiple = TRUE, !.isDone = TRUE,
                                  !.BurstDuration = timeQuantum]
                first == [c0 EXCEPT !.isDone = FALSE, !.hasMultiple = TRUE,
                                    !.BurstDuration = c0.BurstDuration - rest.BurstDuration]
            IN Append(InsertAt(readyQueue, i, first), rest)

\* One iteration of the loop of RRSchedule that builds readyQueue,
\* for i, x := range copyQueue.  serviceTime is still 0 in this loop.
RRSplit(readyQueue, i, copyQueue, timeQuantum) ==
    LET x == copyQueue[i]
        c0 == [copyQueue[i] EXCEPT !.startingTime = 0]
    IN IF c0.BurstDuration = timeQuantum
       THEN Append(readyQueue, [x EXCEPT !.isDone = TRUE, !.hasMultiple = FALSE])
       ELSE LET rest == [x EXCEPT !.hasMultiple = TRUE, !.isDone = TRUE,
                                  !.BurstDuration = c0.BurstDuration - timeQuantum]
                first == [c0 EXCEPT !.isDone = FALSE, !.hasMultiple = TRUE,
                                    !.BurstDuration = c0.BurstDuration - rest.BurstDuration]
            IN Append(InsertAt(readyQueue, i, first), rest)

RECURSIVE RRSplitLoop(_, _, _, _)
RRSplitLoop(readyQueue, i, copyQueue, timeQuantum) ==
    IF i > Len(copyQueue) THEN readyQueue
    ELSE RRSplitLoop(RRSplit(readyQueue, i, copyQueue, timeQuantum), i + 1,
                     copyQueue, timeQuantum)

\* One iteration of the loop of RRSchedule that builds the schedule.
RREmit(o, i) ==
    LET r0 == o.readyQueue[i]
        r1 == [r0 EXCEPT !.totalWait = o.serviceTime - r0.ArrivalTime,
                         !.startingTime = o.serviceTime,
                         !.stoppingTime = o.serviceTime + r0.BurstDuration]
        r == IF i - 1 >= 1 /\ r1.hasMultiple = TRUE
             THEN IF r1.isDone = TRUE
                  THEN [r1 EXCEPT !.totalWait = o.serviceTime - o.readyQueue[i - 1].startingTime]
                  ELSE [r1 EXCEPT !.totalWait = o.serviceTime - r1.ArrivalTime]
             ELSE r1
        turnaround == r.BurstDuration + r.totalWait
    IN [readyQueue |-> [o.readyQueue EXCEPT ![i] = r],
        serviceTime |-> o.serviceTime + r.BurstDuration,
        totalWait |-> IF r.isDone = TRUE THEN o.totalWait + r.totalWait ELSE o.totalWait,
        totalTurnaround |-> o.totalTurnaround + turnaround,
        lastCompletion |-> r.stoppingTime,
        schedule |-> Append(o.schedule,
                        Row(r.ProcessID, r.Priority, r.BurstDuration,
                            r.ArrivalTime, r.totalWait, turnaround, r.stoppingTime)),
        gantt |-> Append(o.gantt, TimeSlice(r.ProcessID, r.startingTime, r.stoppingTime))]

RECURSIVE RREmitLoop(_, _)
RREmitLoop(o, i) ==
    IF i > Len(o.readyQueue) THEN o ELSE RREmitLoop(RREmit(o, i), i + 1)

\* RRSchedule on a list that is not empty.
RRRun(ps) ==
    LET timeQuantum == RRQuantum(ps)
        o == RREmitLoop(
                 [readyQueue |-> RRSplitLoop(<<>>, 1, ps, timeQuantum),
                  serviceTime |-> 0, totalWait |-> 0, totalTurnaround |-> 0,
                  lastCompletion |-> 0, schedule |-> MakeSchedule(Len(ps)),
                  gantt |-> <<>>], 1)
    IN Output(Len(ps), o.gantt, o.schedule, o.totalWait, o.totalTurnaround,
              o.lastCompletion, timeQuantum)

\* processes[0] on an empty slice: index out of range, a run-time panic.
RRPanics(ps) == Len(ps) = 0

\* ------------------------------------------------------------- behaviour
\* loadProcesses: one process per row of the file, in file order.  The k-th
\* row gets id k; a row is (burst, arrival, priority).
Rows == (1..MaxBurst) \X (0..MaxArrival) \X (1..MaxPriority)

Files == UNION {[1..n -> Rows] : n \in 0..MaxProcs}

loadProcesses(f) == [k \in DOMAIN f |-> Process(k, f[k][1], f[k][2], f[k][3])]

Init ==
    /\ \E f \in Files : processes = loadProcesses(f)
    /\ input = processes
    /\ pc = "FCFS"
    /\ out = [s \in Schedulers |-> NoOutput]

FCFSSchedule ==
    /\ pc = "FCFS"
    /\ out' = [out EXCEPT !["FCFS"] = FCFSRun(processes)]
    /\ pc' = "SJF"
    /\ UNCHANGED <<processes, input>>

SJFSchedule ==
    /\ pc = "SJF"
    /\ processes' = SJFSorted(processes)
    /\ out' = [out EXCEPT !["SJF"] = SJFRun(processes)]
    /\ pc' = "Priority"
    /\ UNCHANGED input

SJFPrioritySchedule ==
    /\ pc = "Priority"
    /\ out' = [out EXCEPT !["Priority"] = PriorityRun(processes)]
    /\ pc' = "RR"
    /\ UNCHANGED <<processes, input>>

RRSchedule ==
    /\ pc = "RR"
    /\ IF RRPanics(processes)
       THEN pc' = "panic" /\ out' = out
       ELSE pc' = "exit" /\ out' = [out EXCEPT !["RR"] = RRRun(processes)]
    /\ UNCHANGED <<processes, input>>

\* main: the four schedulers in order on the same slice.
Next == FCFSSchedule \/ SJFSchedule \/ SJFPrioritySchedule \/ RRSchedule

Spec == Init /\ [][Next]_vars

\* ------------------------------------------------------------ properties
\* Vocabulary of the properties.  A process is identified by its id, which
\* is its position in the loaded list, so input[pid] is the process as it
\* was loaded.
Pids == 1..Len(input)

Duration(sl) == sl.Stop - sl.Start

\* The positions of the slices of pid in timeline g.
SlicesOf(g, pid) == {k \in 1..Len(g) : g[k].PID = pid}

RECURSIVE SumDurations(_, _, _)
SumDurations(g, pid, k) ==
    IF k > Len(g) THEN 0
    ELSE (IF g[k].PID = pid THEN Duration(g[k]) ELSE 0) + SumDurations(g, pid, k + 1)

\* The rows of a schedule table that hold a process.
FilledRows(sch) == {k \in 1..Len(sch) : sch[k] # NilRow}

MinBurst == CHOOSE b \in {input[p].BurstDuration : p \in Pids} :
                \A p \in Pids : b <= input[p].BurstDuration

\* C1: in every printed timeline, the durations of the slices of a process
\* add up to the burst duration the process was loaded with.
C1_SliceDurationsSumToBurst ==
    \A s \in Schedulers : out[s].done =>
        \A pid \in Pids :
            SumDurations(out[s].gantt, pid, 1) = input[pid].BurstDuration

\* C2: every printed timeline is ordered by start and does not overlap: a
\* slice starts no earlier than the slice before it stops.
C2_TimelineOrdered ==
    \A s \in Schedulers : out[s].done =>
        \A k \in 1..(Len(out[s].gantt) - 1) :
            out[s].gantt[k + 1].Start >= out[s].gantt[k].Stop

\* C3: no slice of a process starts before the process has arrived.
C3_NoRunBeforeArrival ==
    \A s \in Schedulers : out[s].done =>
        \A k \in 1..Len(out[s].gantt) :
            out[s].gantt[k].Start >= input[out[s].gantt[k].PID].ArrivalTime

\* C4: no scheduler changes the caller's list of processes: it stays the
\* list that was loaded, element by element.
C4_InputNotMutated == processes = input

\* C5: in every row of every schedule table, the turnaround equals the burst
\* duration the process was loaded with plus the row's wait.
C5_TurnaroundIsBurstPlusWait ==
    \A s \in Schedulers : out[s].done =>
        \A k \in FilledRows(out[s].schedule) :
            LET r == out[s].schedule[k]
            IN r[6] = input[r[1]].BurstDuration + r[5]

\* C6: every schedule table holds one row per loaded process, and no other
\* row (rows nobody filled in are not counted against the table).
C6_OneRowPerProcess ==
    \A s \in Schedulers : out[s].done =>
        \A pid \in Pids :
            Cardinality({k \in FilledRows(out[s].schedule) :
                            out[s].schedule[k][1] = pid}) = 1

\* C7: round robin's quantum is the smallest burst duration of the loaded
\* processes, and a slice longer than the quantum is the last slice of its
\* process.
C7_RRQuantum ==
    out["RR"].done =>
        /\ out["RR"].timeQuantum = MinBurst
        /\ \A k \in 1..Len(out["RR"].gantt) :
               \/ Duration(out["RR"].gantt[k]) <= out["RR"].timeQuantum
               \/ \A m \in SlicesOf(out["RR"].gantt, out["RR"].gantt[k].PID) : m <= k

\* C7 witness: round robin printed a timeline in which a process got a first
\* slice of one quantum and a last slice longer than the quantum.
C7_Witness ==
    /\ out["RR"].done
    /\ \E k, m \in 1..Len(out["RR"].gantt) :
           /\ k < m
           /\ out["RR"].gantt[k].PID = out["RR"].gantt[m].PID
           /\ Duration(out["RR"].gantt[k]) = out["RR"].timeQuantum
           /\ Duration(out["RR"].gantt[m]) > out["RR"].timeQuantum

\* b arrives while a, the first process to arrive, is still running, b is
\* more urgent than a, and nobody else is: a is preempted once, by b.
Preempts(a, b) ==
    /\ a # b
    /\ \A c \in Pids \ {a} : input[c].ArrivalTime > input[a].ArrivalTime
    /\ input[b].Priority < input[a].Priority
    /\ input[b].ArrivalTime < input[a].ArrivalTime + input[a].BurstDuration
    /\ \A c \in Pids \ {a, b} : input[c].Priority >= input[a].Priority

\* C8: in the priority timeline, a process that a more urgent process
\* interrupts by arriving while it runs has exactly two slices, they add up
\* to its burst duration, and the first one stops when the other arrives.
C8_PreemptedRunsInTwoSlices ==
    out["Priority"].done =>
        \A a, b \in Pids : Preempts(a, b) =>
            LET g == out["Priority"].gantt
                ks == SlicesOf(g, a)
            IN /\ Cardinality(ks) = 2
               /\ SumDurations(g, a, 1) = input[a].BurstDuration
               /\ \E k \in ks : /\ \A m \in ks : k <= m
                                /\ g[k].Stop = input[b].ArrivalTime

\* C9: the shortest-job-first timeline has exactly one slice per loaded
\* process, as long as the burst duration of the process.
C9_SJFNonPreemptive ==
    out["SJF"].done =>
        \A pid \in Pids :
            /\ Cardinality(SlicesOf(out["SJF"].gantt, pid)) = 1
            /\ \A k \in SlicesOf(out["SJF"].gantt, pid) :
                   Duration(out["SJF"].gantt[k]) = input[pid].BurstDuration

\* C10: on an empty list no scheduler panics, and the three averages of
\* every scheduler are reported as undefined, not as the outcome of a
\* division by zero.
C10_EmptyListIsDefined ==
    Len(input) = 0 =>
        /\ pc # "panic"
        /\ \A s \in Schedulers : out[s].done =>
               /\ out[s].aveWait.kind = "undefined"
               /\ out[s].aveTurnaround.kind = "undefined"
               /\ out[s].aveThroughput.kind = "undefined"

RECURSIVE SumBursts(_)
SumBursts(k) == IF k > Len(input) THEN 0 ELSE input[k].BurstDuration + SumBursts(k + 1)

\* C11: for a list that is not empty, the average turnaround of every
\* scheduler is its average wait plus the mean burst duration: the total
\* turnaround is the total wait plus the burst durations of the loaded
\* processes.
C11_TurnaroundIsWaitPlusBursts ==
    \A s \in Schedulers : (out[s].done /\ Len(input) > 0) =>
        /\ out[s].aveTurnaround.kind = "num"
        /\ out[s].aveWait.kind = "num"
        /\ out[s].aveTurnaround.den = out[s].aveWait.den
        /\ out[s].aveTurnaround.num = out[s].aveWait.num + SumBursts(1)

\* C12: no row of any schedule table reports a negative wait.
C12_WaitNotNegative ==
    \A s \in Schedulers : out[s].done =>
        \A k \in FilledRows(out[s].schedule) : out[s].schedule[k][5] >= 0

\* C13: every scheduler terminates with its result produced: once main has
\* no call left to make, each of the four schedulers has printed its result.
C13_EverySchedulerProducesItsResult ==
    pc \notin Schedulers => \A s \in Schedulers : out[s].done

Max(a, b) == IF a >= b THEN a ELSE b

\* The loaded processes in stable order of arrival.
ByArrival == SliceStable(input, "ArrivalTime")

\* The first-come-first-serve timeline of ByArrival from position k on, the
\* process before it completing at previous.
RECURSIVE FCFSExpected(_, _)
FCFSExpected(k, previous) ==
    IF k > Len(ByArrival) THEN <<>>
    ELSE LET start == Max(ByArrival[k].ArrivalTime, previous)
             completion == start + ByArrival[k].BurstDuration
         IN <<TimeSlice(ByArrival[k].ProcessID, start, completion)>>
            \o FCFSExpected(k + 1, completion)

\* C14: first-come-first-serve runs the processes in stable order of
\* arrival, whatever the order of the list: the timeline is one slice per
\* process from max(arrival, previous completion) to that plus the burst,
\* and the row of the process reports wait = start - arrival and that
\* completion.
C14_FCFSArrivalOrder ==
    out["FCFS"].done =>
        /\ out["FCFS"].gantt = FCFSExpected(1, 0)
        /\ Len(out["FCFS"].schedule) = Len(input)
        /\ \A k \in 1..Len(input) :
               LET r == out["FCFS"].schedule[k]
                   sl == FCFSExpected(1, 0)[k]
               IN /\ r # NilRow
                  /\ r[1] = sl.PID
                  /\ r[5] = sl.Start - input[sl.PID].ArrivalTime
                  /\ r[7] = sl.Stop

\* a is at most b in the lexicographic order of tuples of the same length.
RECURSIVE LexLE(_, _)
LexLE(a, b) ==
    \/ a = <<>>
    \/ a[1] < b[1]
    \/ a[1] = b[1] /\ LexLE(Tail(a), Tail(b))

\* The process shortest-job-first selects among those of ready: smallest
\* burst, then earliest arrival, then smallest id.
SJFKey(p) == <<input[p].BurstDuration, input[p].ArrivalTime, p>>

SJFSelect(ready) == CHOOSE p \in ready : \A q \in ready : LexLE(SJFKey(p), SJFKey(q))

\* The non-preemptive shortest-job-first timeline of the processes of
\* remaining from time t on.
RECURSIVE SJFExpected(_, _)
SJFExpected(remaining, t) ==
    IF remaining = {} THEN <<>>
    ELSE LET ready == {p \in remaining : input[p].ArrivalTime <= t}
         IN IF ready = {}
            THEN SJFExpected(remaining,
                     CHOOSE a \in {input[p].ArrivalTime : p \in remaining} :
                         \A p \in remaining : a <= input[p].ArrivalTime)
            ELSE LET p == SJFSelect(ready)
                     stop == t + input[p].BurstDuration
                 IN <<TimeSlice(p, t, stop)>> \o SJFExpected(remaining \ {p}, stop)

\* C15: at time 0 and at each completion shortest-job-first starts the
\* arrived, not completed process of smallest burst (then earliest arrival,
\* then id), moves the clock to the next arrival when none has arrived, and
\* so runs every process once.
C15_SJFSelection ==
    out["SJF"].done => out["SJF"].gantt = SJFExpected(Pids, 0)

\* How long pid has run in timeline g before slice k.
RECURSIVE RanBefore(_, _, _)
RanBefore(g, pid, k) ==
    IF k <= 1 THEN 0
    ELSE (IF g[k - 1].PID = pid THEN Duration(g[k - 1]) ELSE 0) + RanBefore(g, pid, k - 1)

\* What is left of the burst of pid when slice k of timeline g starts.
Remaining(g, pid, k) == input[pid].BurstDuration - RanBefore(g, pid, k)

PriorityKey(g, p, k) ==
    <<input[p].Priority, Remaining(g, p, k), input[p].ArrivalTime, p>>

\* C16: in the priority timeline, the process of every slice is, when the
\* slice starts, the arrived, not completed process of smallest priority
\* (then smallest remaining burst, then earliest arrival, then id); and a
\* slice that does not complete its process stops when a process of
\* strictly smaller priority arrives.
C16_PrioritySelection ==
    out["Priority"].done =>
        LET g == out["Priority"].gantt
        IN \A k \in 1..Len(g) :
               /\ \A q \in Pids :
                      (/\ input[q].ArrivalTime <= g[k].Start
                       /\ Remaining(g, q, k) > 0)
                      => LexLE(PriorityKey(g, g[k].PID, k), PriorityKey(g, q, k))
               /\ Remaining(g, g[k].PID, k) > Duration(g[k])
                      => \E q \in Pids :
                             /\ input[q].Priority < input[g[k].PID].Priority
                             /\ input[q].ArrivalTime = g[k].Stop

Min(a, b) == IF a <= b THEN a ELSE b

\* ceil(a / b) for positive b.
CeilDiv(a, b) == (a + b - 1) \div b

\* C17: in the round-robin timeline every slice runs its process for
\* min(quantum, remaining burst), so no slice is longer than the quantum, a
\* process of burst b gets ceil(b / quantum) slices, and a process with no
\* burst left never runs again.
C17_RRSlices ==
    out["RR"].done =>
        LET g == out["RR"].gantt
            quantum == out["RR"].timeQuantum
        IN /\ \A k \in 1..Len(g) :
                  /\ Remaining(g, g[k].PID, k) > 0
                  /\ Duration(g[k]) = Min(quantum, Remaining(g, g[k].PID, k))
           /\ \A pid \in Pids :
                  Cardinality(SlicesOf(g, pid)) = CeilDiv(input[pid].BurstDuration, quantum)

\* The last position of set ks of positions.
Last(ks) == CHOOSE k \in ks : \A m \in ks : m <= k

\* The rows of pid in schedule table sch.
RowsOf(sch, pid) == {k \in FilledRows(sch) : sch[k][1] = pid}

\* C18: the wait round robin reports for a process, in the last row it
\* prints for it, is the stop of its last slice minus its arrival time minus
\* the burst duration it was loaded with.
C18_RRWait ==
    out["RR"].done =>
        \A pid \in Pids :
            LET g == out["RR"].gantt
                sch == out["RR"].schedule
            IN /\ SlicesOf(g, pid) # {}
               /\ RowsOf(sch, pid) # {}
               /\ sch[Last(RowsOf(sch, pid))][5] =
                      g[Last(SlicesOf(g, pid))].Stop
                      - input[pid].ArrivalTime - input[pid].BurstDuration

\* C19: every slice of every timeline stops after it starts.
C19_SlicesNotEmpty ==
    \A s \in Schedulers : out[s].done =>
        \A k \in 1..Len(out[s].gantt) : out[s].gantt[k].Stop > out[s].gantt[k].Start

\* C20: the table and the timeline of every scheduler agree: the Exit
\* column of the last row of a process is the stop of its last slice, and
\* the last completion that the throughput divides by is the largest stop of
\* the timeline.
C20_MetricsAgreeWithTimeline ==
    \A s \in Schedulers : out[s].done =>
        LET g == out[s].gantt
            sch == out[s].schedule
        IN /\ \A pid \in Pids :
                  /\ RowsOf(sch, pid) # {} <=> SlicesOf(g, pid) # {}
                  /\ RowsOf(sch, pid) # {} =>
                         sch[Last(RowsOf(sch, pid))][7] = g[Last(SlicesOf(g, pid))].Stop
           /\ \A k \in 1..Len(g) : g[k].Stop <= out[s].lastCompletion
           /\ Len(g) > 0 => \E k \in 1..Len(g) : g[k].Stop = out[s].lastCompletion

====
